---- MODULE Spec2Model ----
(***************************************************************************)
(* primesocket: a master hands out segments of [start, end] to workers,    *)
(* workers run a segmented sieve over the segment and report the primes.   *)
(*                                                                         *)
(* The module models                                                       *)
(*   - utils/sieve.rs            sieve_segment            (SpecSieve)      *)
(*   - server/server_state.rs    ServerState::new                          *)
(*   - server/response_handler.rs handler (the master's transition)  (Spec)*)
(*   - client/request_handler.rs handler (the worker's reaction to a       *)
(*                               response), used for the reports of        *)
(*                               workers that follow the worker loop.      *)
(*   - the master after many reports of one segment            (SpecPool)  *)
(*   - server/server.rs          run_server: the receive loop, the task    *)
(*                               per datagram, the response queue and the  *)
(*                               sender task (SpecServer, SpecServerFair   *)
(*                               with the polling of the loop and of the   *)
(*                               tasks; SpecBacklog, which starts with the *)
(*                               response queue full)                      *)
(*   - client/client.rs          run_client: the worker loop  (SpecClient, *)
(*                               SpecClientFair with the wait's timer)     *)
(*   - run_server and run_client together, over a network that loses       *)
(*     nothing                            (SpecProgress, SpecProgressFair) *)
(* All integers of the program are u32; an operation that can leave the    *)
(* u32 range panics in a build with overflow checks and wraps in a build   *)
(* without them; the build is chosen in the initial state. TLC's integers  *)
(* are 32 bits signed, so the model's machine word has WordBits bits: the  *)
(* program's arithmetic is modelled modulo 2^WordBits instead of 2^32.     *)
(***************************************************************************)
EXTENDS Integers, Sequences, FiniteSets, TLC

VARIABLES
    overflow_checks, \* TRUE: build with overflow checks (debug), FALSE: wrapping (release)
    sieve_pc,        \* "idle" | "called" | "returned": position of the sieve call
    sieve_in,        \* arguments of the sieve_segment call: [start, end, primes]
    sieve_out,       \* its outcome: [fault, size, primes]
    start,           \* the `start` argument ServerState::new was given
    server_state,    \* the master's ServerState: [end, step, last_checked, primes, status]
    prev,            \* ServerState before the request handled last
    request,         \* the request handled last
    response,        \* the response the handler returned for it
    sent,            \* every Range response issued so far (datagrams a worker may act on)
    honest,          \* TRUE while every Save handled was produced by a worker from a Range
    handled,         \* number of requests handled
    srv_pc,          \* run_server: "idle" | "bind" | "check" | "select" | "exited" | "returned"
    run_result,      \* what run_server returned: "none" | "Ok" | "Err"
    start_result,    \* what start_server returned: "none" | "Ok" | "Err"
    tasks,           \* the per-datagram tasks spawned so far: [src, datagram, pc, response]
    lock,            \* holder of the ServerState mutex: 0 (free) or the index of a task
    queue,           \* the response channel: [task, to, response], oldest first
                     \* (task 0: a response enqueued before the run starts)
    transmitted,     \* indices of the tasks whose response the sender task sent
    saves,           \* number of calls of save_primes_to_file
    saved,           \* the primes written by the last of them
    client_pc,       \* run_client: "idle" | "bind" | "send_start" | "recv" | "done"
    client_result,   \* what run_client returned: "none" | "Ok" | "Err" | "panic"
    client_log,      \* what the worker sent and received so far: [ev, msg], oldest first
    inflight,        \* number of datagrams on their way to the worker
    answers,         \* number of responses the master has sent to the worker
    master_up,       \* FALSE once the master has stopped answering
    to_master,       \* the datagrams sent to the master and not yet handled, oldest first
    to_worker        \* the datagrams sent to the worker and not yet received, oldest first

vars == <<overflow_checks, sieve_pc, sieve_in, sieve_out, start, server_state,
          prev, request, response, sent, honest, handled,
          srv_pc, run_result, start_result, tasks, lock, queue, transmitted,
          saves, saved,
          client_pc, client_result, client_log, inflight, answers, master_up,
          to_master, to_worker>>

net_vars == <<to_master, to_worker>>

sieve_vars == <<sieve_pc, sieve_in, sieve_out>>
master_vars == <<start, server_state, prev, request, response, sent, honest, handled>>
server_vars == <<srv_pc, run_result, start_result, tasks, lock, queue, transmitted,
                 saves, saved>>

(***************************************************************************)
(* Bounds of the model.                                                    *)
(***************************************************************************)
\* sieve_segment is called with start, end in 0..MaxHi
MaxHi == 30
\* the configured upper bound `end` ranges over 0..MaxEnd and a few larger values
MaxEnd == 3
\* number of requests the master handles in one run
MaxRequests == 3
\* width of the model's machine word (the program's is 32)
WordBits == 21

(***************************************************************************)
(* u32 arithmetic and Option values.                                       *)
(***************************************************************************)
U32 == 2^WordBits

Overflows(x) == x < 0 \/ x >= U32

Wrap(x) == x % U32

Max(a, b) == IF a >= b THEN a ELSE b

Min(a, b) == IF a <= b THEN a ELSE b

Some(v) == [some |-> TRUE, val |-> v]

NoneInt == [some |-> FALSE, val |-> 0]

NoneSeq == [some |-> FALSE, val |-> <<>>]

unwrap_or(opt, default) == IF opt.some THEN opt.val ELSE default

(***************************************************************************)
(* Primality, stated independently of the sieve.                           *)
(***************************************************************************)
\* the integer square root
Sqrt(n) == CHOOSE r \in 0..n : r * r <= n /\ (r + 1) * (r + 1) > n

\* n has no divisor d with 1 < d and d * d <= n
IsPrime(n) == n >= 2 /\ \A d \in 2..Sqrt(n) : n % d # 0

\* the values lo, lo + 1, ..., hi in order; empty when hi < lo
Range(lo, hi) == [i \in 1..Max(hi - lo + 1, 0) |-> lo + i - 1]

\* the primes p with lo <= p <= hi, ascending
PrimesIn(lo, hi) == SelectSeq(Range(lo, hi), IsPrime)

\* the ascending list of all primes p with p * p <= hi
ExactDivisors(hi) == SelectSeq(Range(0, hi), LAMBDA p : IsPrime(p) /\ p * p <= hi)

StrictlyAscending(s) == \A i \in 1..(Len(s) - 1) : s[i] < s[i + 1]

(***************************************************************************)
(* utils/sieve.rs: sieve_segment.                                          *)
(* The outcome is [fault, size, primes]: fault is TRUE when the call       *)
(* panics, size is the length of the marker array it allocated, primes the *)
(* vector it returns.                                                      *)
(***************************************************************************)
SieveFault(size) == [fault |-> TRUE, size |-> size, primes |-> <<>>]

\* line 27: (end - start + 1) as usize, computed in u32
marker_size(s, e) ==
    LET diff == e - s
        size == Wrap(diff) + 1
    IN  IF overflow_checks /\ (Overflows(diff) \/ Overflows(size))
        THEN [fault |-> TRUE, size |-> 0]
        ELSE [fault |-> FALSE, size |-> Wrap(size)]

\* line 35: start + (prime - start % prime) % prime, the first multiple of prime >= start
first_multiple(s, prime) == s + ((prime - (s % prime)) % prime)

\* line 36: the multiple equal to the prime itself is skipped
skips_prime(mul, prime) == mul = prime

\* lines 31-43: one iteration of the loop, for the divisor `prime`. Returns
\* [stop, fault, marked]: stop is TRUE when the loop ends here (the break of
\* line 32 or a panic), marked is the set of values whose marker it clears.
mark_step(s, e, size, prime) ==
    LET sq == prime * prime
        stopped(fault) == [stop |-> TRUE, fault |-> fault, marked |-> {}]
    IN  IF overflow_checks /\ Overflows(sq) THEN stopped(TRUE)
        ELSE IF Wrap(sq) > e THEN stopped(FALSE)                \* break
        ELSE IF prime = 0 THEN stopped(TRUE)                    \* start % 0
        ELSE
        LET fm == first_multiple(s, prime)
            mul0 == Max(Wrap(sq), Wrap(fm))
            mul1 == IF skips_prime(mul0, prime) THEN mul0 + prime ELSE mul0
            mul == Wrap(mul1)
            \* (mul..=end).step_by(prime)
            js == {mul + k * prime : k \in 0..((e - mul) \div prime)}
        IN  IF overflow_checks /\ (Overflows(fm) \/ Overflows(mul1))
            THEN stopped(TRUE)
            \* is_prime[(j - start) as usize]: j - start is a u32 subtraction,
            \* and an index out of the array panics
            ELSE IF \E j \in js : (overflow_checks /\ j < s) \/ Wrap(j - s) >= size
            THEN stopped(TRUE)
            ELSE [stop |-> FALSE, fault |-> FALSE, marked |-> js]

\* F at the value of v: v is evaluated once, whatever the number of times F
\* uses it
bind(v, F(_)) == CHOOSE out \in {F(x) : x \in {v}} : TRUE

\* lines 30-44: the loop over the divisors primes[lo..hi], in order; no
\* iteration is made after the one that stops the loop. The list is split in
\* halves so that a list of TakeLimit divisors is evaluated in few nested
\* steps. Returns [stop, fault, marked].
RECURSIVE mark_loop(_, _, _, _, _, _)
mark_loop(lo, hi, s, e, size, primes) ==
    IF lo > hi THEN [stop |-> FALSE, fault |-> FALSE, marked |-> {}]
    ELSE IF lo = hi THEN mark_step(s, e, size, primes[lo])
    ELSE
    bind((lo + hi) \div 2, LAMBDA mid :
    bind(mark_loop(lo, mid, s, e, size, primes), LAMBDA first :
        IF first.stop THEN first
        ELSE bind(mark_loop(mid + 1, hi, s, e, size, primes), LAMBDA rest :
                 [stop |-> rest.stop, fault |-> rest.fault,
                  marked |-> first.marked \cup rest.marked])))

\* lines 46-48: the values of start..=end whose marker is still 1
collect(s, e, marked) ==
    bind(marked, LAMBDA m : SelectSeq(Range(s, e), LAMBDA v : v \notin m))

sieve_segment(s, e, primes) ==
    bind(marker_size(s, e), LAMBDA m :
        IF m.fault THEN SieveFault(0)
        ELSE bind(mark_loop(1, Len(primes), s, e, m.size, primes), LAMBDA l :
                 IF l.fault THEN SieveFault(m.size)
                 ELSE [fault |-> FALSE, size |-> m.size, primes |-> collect(s, e, l.marked)]))

(***************************************************************************)
(* The divisor lists sieve_segment is called with in SpecSieve.            *)
(***************************************************************************)
\* the divisor list of the tests (sieve.rs lines 59, 68, 77, 95)
TestDivisors == <<2, 3, 5, 7>>

DivisorLists(hi) == {ExactDivisors(hi), TestDivisors, <<>>}

(***************************************************************************)
(* server/server_state.rs: ServerState.                                    *)
(***************************************************************************)
\* line 61: step: 1000
Step == 1000

\* line 65: the seed of known primes
SeedPrimes == <<2, 3, 5, 7, 11, 13, 17, 19, 23, 29, 31, 37, 41, 43, 47,
                53, 59, 61, 67, 71, 73, 79, 83, 89, 97>>

\* lines 58-70
ServerState_new(s, e) ==
    [end |-> e, step |-> Step, last_checked |-> s,
     primes |-> SeedPrimes, status |-> "processing"]

(***************************************************************************)
(* The two messages, with the fields the handlers build and read (task,    *)
(* end, primes; task, status, start, end, primes). utils/json.rs declares  *)
(* an older shape of them (sieve, last_checked).                           *)
(***************************************************************************)
Request(task, e, primes) == [task |-> task, end |-> e, primes |-> primes]

Response(task, status, s, e, primes) ==
    [task |-> task, status |-> status, start |-> s, end |-> e, primes |-> primes]

\* no request handled yet / the handler did not return (its task panicked)
NoRequest == Request("", NoneInt, NoneSeq)

NoResponse == Response("", "", NoneInt, NoneInt, NoneSeq)

Panicked == Response("panicked", "", NoneInt, NoneInt, NoneSeq)

(***************************************************************************)
(* server/response_handler.rs: handler. Each arm returns                   *)
(* [state, response]: the ServerState it leaves and the Response.          *)
(***************************************************************************)
\* line 44: take(10_000)
TakeLimit == 10000

take(s, n) == SubSeq(s, 1, Min(Len(s), n))

\* line 28
is_completed(state) == state.status = "completed"

\* lines 29-35 and 54-60: the Done response
done_response(state) == Response("done", state.status, NoneInt, NoneInt, NoneSeq)

\* lines 63-69: the Continue response
continue_response(state) == Response("continue", state.status, NoneInt, NoneInt, NoneSeq)

\* lines 71-77: the response to an unrecognized task
error_response == Response("error", "invalid_task", NoneInt, NoneInt, NoneSeq)

\* line 43: last_checked + step
range_end(state) == state.last_checked + state.step

\* the "start" arm as it would be if the assignment advanced the cursor
handle_start_advancing(state) ==
    [state |-> [state EXCEPT !.last_checked = Wrap(range_end(state))],
     response |-> Response("range", state.status,
                           Some(state.last_checked), Some(Wrap(range_end(state))),
                           Some(take(state.primes, TakeLimit)))]

\* lines 39-45: the "start" arm
handle_start(state) ==
    LET e == range_end(state)
    IN  IF overflow_checks /\ Overflows(e)
        THEN [state |-> state, response |-> Panicked]
        ELSE [state |-> state,
              response |-> Response("range", state.status,
                                    Some(state.last_checked), Some(Wrap(e)),
                                    Some(take(state.primes, TakeLimit)))]

\* line 48: primes.extend(request.primes.unwrap_or([]))
merged_primes(state, req) == state.primes \o unwrap_or(req.primes, <<>>)

\* the cursor update without the max: the reported end overwrites the cursor
merged_last_checked_overwriting(state, req) == unwrap_or(req.end, 0)

\* lines 47, 49: last_checked = max(request.end.unwrap_or(0), last_checked)
merged_last_checked(state, req) == Max(unwrap_or(req.end, 0), state.last_checked)

\* the completion test with > in place of >=
reached_end_strict(state) == state.last_checked > state.end

\* line 52
reached_end(state) == state.last_checked >= state.end

\* lines 46-70: the "save" arm
handle_save(state, req) ==
    LET merged == [state EXCEPT !.primes = merged_primes(state, req),
                                !.last_checked = merged_last_checked(state, req)]
        completed == [merged EXCEPT !.status = "completed"]
    IN  IF reached_end(merged)
        THEN [state |-> completed, response |-> done_response(completed)]
        ELSE [state |-> merged, response |-> continue_response(merged)]

\* lines 38-78: the match on request.task
handle_task(state, req) ==
    CASE req.task = "start" -> handle_start(state)
      [] req.task = "save" -> handle_save(state, req)
      [] OTHER -> [state |-> state, response |-> error_response]

\* the handler without the check of lines 28-36
handler_unguarded(state, req) == handle_task(state, req)

\* lines 26-79
handler(state, req) ==
    IF is_completed(state)
    THEN [state |-> state, response |-> done_response(state)]
    ELSE handle_task(state, req)

(***************************************************************************)
(* client/request_handler.rs: handler, the worker's reaction to a          *)
(* response. Returns [fault, request].                                     *)
(***************************************************************************)
\* the reaction to a Range as it would be if the Save reported the segment's start
client_handler_reporting_start(resp) ==
    IF resp.task = "range" /\ resp.start.some /\ resp.end.some /\ resp.primes.some
    THEN [fault |-> FALSE,
          request |-> Request("save", Some(resp.start.val), Some(<<>>))]
    ELSE [fault |-> FALSE, request |-> Request("close", NoneInt, NoneSeq)]

client_handler(resp) ==
    CASE resp.task = "range" ->
            IF ~(resp.start.some /\ resp.end.some /\ resp.primes.some)
            THEN [fault |-> TRUE, request |-> NoRequest]       \* unwrap() of None
            ELSE LET result == sieve_segment(resp.start.val, resp.end.val, resp.primes.val)
                 IN  IF result.fault
                     THEN [fault |-> TRUE, request |-> NoRequest]
                     ELSE [fault |-> FALSE,
                           request |-> Request("save", Some(resp.end.val), Some(result.primes))]
      [] resp.task = "continue" ->
            [fault |-> FALSE, request |-> Request("continue", NoneInt, NoneSeq)]
      [] OTHER ->
            [fault |-> FALSE, request |-> Request("close", NoneInt, NoneSeq)]

(***************************************************************************)
(* Initial states and actions. SpecSieve is one call of sieve_segment on   *)
(* arguments drawn from 0..MaxHi; Spec is the master handling requests,    *)
(* one at a time: Starts, Saves of workers that sieved a Range they were   *)
(* sent, and Saves and other requests of arbitrary content.                *)
(***************************************************************************)
\* server.rs line 33: let start = 2
DefaultStart == 2

\* ServerState::new is given start = 2 by start_server and start = 0 by the tests
Starts == {0, DefaultStart}

ConfiguredEnds == (0..MaxEnd) \cup {100, 1500, U32 - 1}

\* the `end` and `primes` fields of a Save sent by an arbitrary peer
ReportedEnds == {NoneInt} \cup {Some(v) : v \in {0, 10, 100, U32 - 2}}

ReportedPrimes == {NoneSeq, Some(<<101, 103>>)}

client_vars == <<client_pc, client_result, client_log, inflight, answers, master_up>>

\* run_client is not running
ClientIdle ==
    /\ client_pc = "idle"
    /\ client_result = "none"
    /\ client_log = <<>>
    /\ inflight = 0
    /\ answers = 0
    /\ master_up = FALSE
    /\ to_master = <<>>
    /\ to_worker = <<>>

\* run_server is not running
ServerIdle ==
    /\ srv_pc = "idle"
    /\ run_result = "none"
    /\ start_result = "none"
    /\ tasks = <<>>
    /\ lock = 0
    /\ queue = <<>>
    /\ transmitted = {}
    /\ saves = 0
    /\ saved = NoneSeq

SieveIdle ==
    /\ sieve_pc = "idle"
    /\ sieve_in = [start |-> 0, end |-> 0, primes |-> <<>>]
    /\ sieve_out = SieveFault(0)

MasterIdle ==
    /\ start = 0
    /\ server_state = ServerState_new(0, 0)
    /\ prev = server_state
    /\ request = NoRequest
    /\ response = NoResponse
    /\ sent = {}
    /\ honest = TRUE
    /\ handled = 0

\* a call sieve_segment(s, e, d) is about to be made
InitSieve ==
    /\ overflow_checks \in BOOLEAN
    /\ sieve_pc = "called"
    /\ \E s \in 0..MaxHi, e \in 0..MaxHi :
          \E d \in DivisorLists(e) :
             sieve_in = [start |-> s, end |-> e, primes |-> d]
    /\ sieve_out = SieveFault(0)
    /\ MasterIdle
    /\ ServerIdle
    /\ ClientIdle

\* the call returns or panics
SieveCall ==
    /\ sieve_pc = "called"
    /\ sieve_out' = sieve_segment(sieve_in.start, sieve_in.end, sieve_in.primes)
    /\ sieve_pc' = "returned"
    /\ UNCHANGED <<net_vars, client_vars, overflow_checks, sieve_in, master_vars, server_vars>>

NextSieve == SieveCall

SpecSieve == InitSieve /\ [][NextSieve]_vars

\* the master after ServerState::new(start, end) (server.rs line 105)
Init ==
    /\ overflow_checks \in BOOLEAN
    /\ SieveIdle
    /\ start \in Starts
    /\ \E e \in ConfiguredEnds : server_state = ServerState_new(start, e)
    /\ prev = server_state
    /\ request = NoRequest
    /\ response = NoResponse
    /\ sent = {}
    /\ honest = TRUE
    /\ handled = 0
    /\ ServerIdle
    /\ ClientIdle

\* the master handles one request (server.rs line 154: handler(&mut state, request_data))
Handle(req, by_worker) ==
    /\ LET r == handler(server_state, req)
       IN  /\ server_state' = r.state
           /\ response' = r.response
           /\ sent' = IF r.response.task = "range" THEN sent \cup {r.response} ELSE sent
    /\ prev' = server_state
    /\ request' = req
    /\ honest' = (honest /\ by_worker)
    /\ handled' = handled + 1
    /\ UNCHANGED <<net_vars, client_vars, overflow_checks, start, sieve_vars, server_vars>>

\* client.rs lines 81-87: a worker asks for work
StartRequest ==
    /\ handled < MaxRequests
    /\ Handle(Request("start", NoneInt, NoneSeq), TRUE)

\* a Save from any peer: stale, duplicate, without end or primes
SaveRequest ==
    /\ handled < MaxRequests
    /\ \E e \in ReportedEnds, p \in ReportedPrimes :
          Handle(Request("save", e, p), FALSE)

\* a request with a task the handler does not know
OtherRequest ==
    /\ handled < MaxRequests
    /\ Handle(Request("fetch", NoneInt, NoneSeq), FALSE)

\* client.rs lines 105-110: a worker that received a Range (any of those sent,
\* datagrams may be delayed or duplicated) sieves it and reports with Save
WorkerSave ==
    /\ handled < MaxRequests
    /\ \E r \in sent :
          LET q == client_handler(r)
          IN  /\ ~q.fault
              /\ Handle(q.request, TRUE)

Next == StartRequest \/ SaveRequest \/ OtherRequest \/ WorkerSave

Spec == Init /\ [][Next]_vars

(***************************************************************************)
(* SpecPool: the master late in a run of workers that follow the worker    *)
(* loop. PoolSize workers started together: each was sent the first Range  *)
(* (the cursor moves only when a Save is handled) and each reported it;    *)
(* after that the Ranges were reported one after the other. The initial    *)
(* states are the ServerStates such a run leaves after `rounds` Ranges.    *)
(***************************************************************************)
\* number of workers that started together
PoolSize == 60

\* number of Ranges reported so far
PoolRounds == {1017, 1018}

\* the `end` argument of start_server
PoolEnds == {1100000, 2000000}

\* s repeated n times
Repeat(s, n) == [i \in 1..(n * Len(s)) |-> s[((i - 1) % Len(s)) + 1]]

\* the primes of lo..hi, ascending, for lo > Sqrt(hi): the values without a
\* divisor among the primes up to Sqrt(hi)
PrimesAbove(lo, hi) ==
    LET small == {p \in 2..Sqrt(hi) : IsPrime(p)}
    IN  SelectSeq(Range(lo, hi), LAMBDA n : \A p \in small : n % p # 0)

\* response_handler.rs line 48, applied to the Saves of the run: the seeds,
\* the primes of the first Range once per worker of the pool, then the
\* primes of the later Ranges
pool_primes(workers, rounds) ==
    SeedPrimes
    \o Repeat(PrimesIn(DefaultStart, DefaultStart + Step), workers)
    \o PrimesAbove(DefaultStart + Step + 1, DefaultStart + rounds * Step)

pool_state(workers, rounds, e) ==
    [ServerState_new(DefaultStart, e) EXCEPT
        !.last_checked = DefaultStart + rounds * Step,
        !.primes = pool_primes(workers, rounds)]

InitPool ==
    /\ overflow_checks \in BOOLEAN
    /\ SieveIdle
    /\ start = DefaultStart
    /\ \E rounds \in PoolRounds, e \in PoolEnds :
          server_state = pool_state(PoolSize, rounds, e)
    /\ prev = server_state
    /\ request = NoRequest
    /\ response = NoResponse
    /\ sent = {}
    /\ honest = TRUE
    /\ handled = 0
    /\ ServerIdle
    /\ ClientIdle

NextPool == StartRequest \/ WorkerSave \/ OtherRequest

SpecPool == InitPool /\ [][NextPool]_vars

(***************************************************************************)
(* SpecServer: server/server.rs, start_server and run_server. The receive  *)
(* loop spawns one task per datagram; the tasks share the ServerState      *)
(* behind a mutex and pass their responses to the sender task through the  *)
(* response channel. The runtime is multi-threaded: tasks run in parallel  *)
(* with the loop and with each other. When run_server returns,             *)
(* start_server drops the runtime and with it every task that is not       *)
(* running.                                                                *)
(***************************************************************************)
\* number of datagrams the server receives in one run
MaxDatagrams == 2

\* server.rs line 91: mpsc::channel(100)
QueueCapacity == 100

\* the `end` argument of start_server in SpecServer
ServerEnds == {100, 1500}

\* the addresses datagrams come from
Addrs == {"w1", "w2"}

\* a datagram: json is TRUE when the payload is the JSON of a request
Datagram(json, req) == [json |-> json, request |-> req]

Garbage == Datagram(FALSE, NoRequest)

Datagrams ==
    {Garbage,
     Datagram(TRUE, Request("start", NoneInt, NoneSeq)),
     Datagram(TRUE, Request("save", Some(100), Some(<<101, 103>>))),
     Datagram(TRUE, Request("fetch", NoneInt, NoneSeq))}

\* utils/json.rs: Request::from_json, None for a payload that is not a request
Request_from_json(d) ==
    IF d.json THEN [some |-> TRUE, val |-> d.request]
    ELSE [some |-> FALSE, val |-> NoRequest]

\* the response to an undecodable payload, as it would be if it were a Done
invalid_request_response_done == Response("done", "invalid_request", NoneInt, NoneInt, NoneSeq)

\* server.rs lines 160-166: the response to an undecodable payload
invalid_request_response == Response("error", "invalid_request", NoneInt, NoneInt, NoneSeq)

\* server.rs lines 143-169: what a task does while it holds the mutex.
\* Returns [state, request, response, pc]: pc is "saved" when the task wrote
\* the primes and returned without a response, "panicked" when the handler
\* panicked, "decided" when it left the block with a response.
task_body(state, d) ==
    LET decoded == Request_from_json(d)
    IN  IF is_completed(state)
        THEN [state |-> state, request |-> NoRequest, response |-> NoResponse, pc |-> "saved"]
        ELSE IF decoded.some
        THEN LET r == handler(state, decoded.val)
             IN  [state |-> r.state, request |-> decoded.val, response |-> r.response,
                  pc |-> IF r.response = Panicked THEN "panicked" ELSE "decided"]
        ELSE [state |-> state, request |-> NoRequest,
              response |-> invalid_request_response, pc |-> "decided"]

Task(src, d) == [src |-> src, datagram |-> d, pc |-> "spawned", response |-> NoResponse]

\* start_server was called with an end: it is about to call run_server
InitServer ==
    /\ overflow_checks \in BOOLEAN
    /\ SieveIdle
    /\ start = DefaultStart
    /\ \E e \in ServerEnds : server_state = ServerState_new(start, e)
    /\ prev = server_state
    /\ request = NoRequest
    /\ response = NoResponse
    /\ sent = {}
    /\ honest = TRUE
    /\ handled = 0
    /\ srv_pc = "bind"
    /\ run_result = "none"
    /\ start_result = "none"
    /\ tasks = <<>>
    /\ lock = 0
    /\ queue = <<>>
    /\ transmitted = {}
    /\ saves = 0
    /\ saved = NoneSeq
    /\ ClientIdle

\* server.rs lines 76-82: the socket is bound
BindOk ==
    /\ srv_pc = "bind"
    /\ srv_pc' = "check"
    /\ UNCHANGED <<net_vars, client_vars, overflow_checks, sieve_vars, master_vars, run_result, start_result,
                   tasks, lock, queue, transmitted, saves, saved>>

\* server.rs lines 83-88: bind fails and run_server returns Err; lines 47-55:
\* start_server logs the error and returns Ok(())
BindFails ==
    /\ srv_pc = "bind"
    /\ srv_pc' = "returned"
    /\ run_result' = "Err"
    /\ start_result' = "Ok"
    /\ UNCHANGED <<net_vars, client_vars, overflow_checks, sieve_vars, master_vars,
                   tasks, lock, queue, transmitted, saves, saved>>

\* the mutex as it would be if lock() did not wait for the holder
mutex_free_unchecked == TRUE

\* server.rs lines 105, 110, 143: Mutex::lock completes when no one holds the
\* mutex
mutex_free == lock = 0

\* the end of the block as it would be if the guard lived on to the send
release_after_send(holder) == holder

\* server.rs lines 117, 151, 169: the guard is dropped at the end of its
\* block (or by the return, or by the unwinding of a panic); the mutex is free
release(holder) == 0

\* the dispatch as it would be if the loop awaited the task it spawned
spawn_awaited == \A i \in DOMAIN tasks : tasks[i].pc \notin {"spawned", "locked", "decided"}

\* server.rs line 141: tokio::spawn returns at once; the loop goes on while
\* the task runs
spawn_detached == TRUE

\* the test of the loop as it would be if it never saw the status completed
observes_completed_never(state) == FALSE

\* server.rs line 111: if state.status == "completed"
observes_completed(state) == state.status = "completed"

\* server.rs lines 109-117: the loop takes the mutex and leaves when the
\* status is completed
LoopCheck ==
    /\ srv_pc = "check"
    /\ spawn_detached
    /\ mutex_free
    /\ srv_pc' = IF observes_completed(server_state) THEN "exited" ELSE "select"
    /\ UNCHANGED <<net_vars, client_vars, overflow_checks, sieve_vars, master_vars, run_result, start_result,
                   tasks, lock, queue, transmitted, saves, saved>>

\* server.rs lines 122-176: a datagram arrives and its task is spawned
Receive ==
    /\ srv_pc = "select"
    /\ Len(tasks) < MaxDatagrams
    /\ \E src \in Addrs, d \in Datagrams : tasks' = Append(tasks, Task(src, d))
    /\ srv_pc' = "check"
    /\ UNCHANGED <<net_vars, client_vars, overflow_checks, sieve_vars, master_vars, run_result, start_result,
                   lock, queue, transmitted, saves, saved>>

\* server.rs lines 178-189: recv_from fails; the loop goes on
ReceiveError ==
    /\ srv_pc = "select"
    /\ srv_pc' = "check"
    /\ UNCHANGED <<net_vars, client_vars, overflow_checks, sieve_vars, master_vars, run_result, start_result,
                   tasks, lock, queue, transmitted, saves, saved>>

\* server.rs lines 192-194: no datagram within 10 ms
Sleep ==
    /\ srv_pc = "select"
    /\ srv_pc' = "check"
    /\ UNCHANGED <<net_vars, client_vars, overflow_checks, sieve_vars, master_vars, run_result, start_result,
                   tasks, lock, queue, transmitted, saves, saved>>

ServerRunning == srv_pc \in {"check", "select", "exited"}

\* server.rs line 143: a task takes the mutex
TaskLock ==
    /\ ServerRunning
    /\ mutex_free
    /\ \E i \in DOMAIN tasks :
          /\ tasks[i].pc = "spawned"
          /\ lock' = i
          /\ tasks' = [tasks EXCEPT ![i].pc = "locked"]
    /\ UNCHANGED <<net_vars, client_vars, overflow_checks, sieve_vars, master_vars, srv_pc, run_result,
                   start_result, queue, transmitted, saves, saved>>

\* server.rs lines 144-169: the task holding the mutex saves the primes and
\* returns, or decides its response; the mutex is released
TaskRun ==
    /\ ServerRunning
    /\ lock # 0
    /\ LET b == task_body(server_state, tasks[lock].datagram)
       IN  /\ server_state' = b.state
           /\ request' = b.request
           /\ response' = b.response
           /\ tasks' = [tasks EXCEPT ![lock].pc = b.pc, ![lock].response = b.response]
           /\ saves' = IF b.pc = "saved" THEN saves + 1 ELSE saves
           /\ saved' = IF b.pc = "saved" THEN Some(server_state.primes) ELSE saved
    /\ prev' = server_state
    /\ handled' = handled + 1
    /\ lock' = release(lock)
    /\ UNCHANGED <<net_vars, client_vars, overflow_checks, sieve_vars, start, sent, honest, srv_pc, run_result,
                   start_result, queue, transmitted>>

\* server.rs line 173: the task sends its response to the channel
TaskEnqueue ==
    /\ ServerRunning
    /\ Len(queue) < QueueCapacity
    /\ \E i \in DOMAIN tasks :
          /\ tasks[i].pc = "decided"
          /\ queue' = Append(queue, [task |-> i, to |-> tasks[i].src,
                                     response |-> tasks[i].response])
          /\ tasks' = [tasks EXCEPT ![i].pc = "enqueued"]
    /\ UNCHANGED <<net_vars, client_vars, overflow_checks, sieve_vars, master_vars, srv_pc, run_result,
                   start_result, lock, transmitted, saves, saved>>

\* server.rs lines 94-103: the sender task takes a response from the channel
\* and sends it to its address
SenderSend ==
    /\ ServerRunning
    /\ queue # <<>>
    /\ transmitted' = transmitted \cup {Head(queue).task}
    /\ queue' = Tail(queue)
    /\ UNCHANGED <<net_vars, client_vars, overflow_checks, sieve_vars, master_vars, srv_pc, run_result,
                   start_result, tasks, lock, saves, saved>>

\* a task that is being polled: it runs on to its next await
running_task(t) ==
    \/ t.pc = "locked"
    \/ t.pc = "decided" /\ Len(queue) < QueueCapacity

\* server.rs line 197 and lines 47-55: run_server returns Ok(()) after the
\* break, start_server returns Ok(()) and drops the runtime: the tasks that
\* are not running are dropped, and so are the channel and the sender task
Return ==
    /\ srv_pc = "exited"
    /\ \A i \in DOMAIN tasks : ~running_task(tasks[i])
    /\ srv_pc' = "returned"
    /\ run_result' = "Ok"
    /\ start_result' = "Ok"
    /\ tasks' = [i \in DOMAIN tasks |->
                    IF tasks[i].pc \in {"spawned", "decided"}
                    THEN [tasks[i] EXCEPT !.pc = "cancelled"]
                    ELSE tasks[i]]
    /\ queue' = <<>>
    /\ UNCHANGED <<net_vars, client_vars, overflow_checks, sieve_vars, master_vars, lock, transmitted,
                   saves, saved>>

NextServer ==
    \/ BindOk \/ BindFails \/ LoopCheck \/ Receive \/ ReceiveError \/ Sleep
    \/ TaskLock \/ TaskRun \/ TaskEnqueue \/ SenderSend \/ Return

SpecServer == InitServer /\ [][NextServer]_vars

\* block_on polls run_server whenever it can go on and the runtime's threads
\* poll every task that can: the sleep of line 192 ends and a task that holds
\* the mutex runs to the end of its block; tokio's Mutex is fair, so the loop
\* gets it
SpecServerFair ==
    /\ SpecServer
    /\ WF_vars(Sleep) /\ SF_vars(LoopCheck) /\ WF_vars(TaskRun)

(***************************************************************************)
(* SpecBacklog: the server loop with a response channel that is full. The  *)
(* initial states are those run_server is in after it received             *)
(* QueueCapacity datagrams with an unknown task from one address and their *)
(* tasks enqueued their responses, the sender task not having sent any     *)
(* yet. `tasks` holds the tasks spawned from then on; the entries *)
(* of the channel enqueued before carry the task number 0.                 *)
(***************************************************************************)
\* number of responses the sender task sends in one run of SpecBacklog
MaxSends == 1

\* number of responses in the channel at the start
BacklogSizes == {QueueCapacity}

\* the `end` argument of start_server in SpecBacklog
BacklogEnds == {100}

\* the responses enqueued by the n tasks that ended before
backlog(n) == [k \in 1..n |-> [task |-> 0, to |-> "w1", response |-> error_response]]

InitBacklog ==
    /\ overflow_checks \in BOOLEAN
    /\ SieveIdle
    /\ start = DefaultStart
    /\ \E e \in BacklogEnds : server_state = ServerState_new(start, e)
    /\ prev = server_state
    /\ request = Request("fetch", NoneInt, NoneSeq)
    /\ response = error_response
    /\ sent = {}
    /\ honest = TRUE
    /\ \E n \in BacklogSizes :
          /\ handled = n
          /\ queue = backlog(n)
    /\ srv_pc = "check"
    /\ run_result = "none"
    /\ start_result = "none"
    /\ tasks = <<>>
    /\ lock = 0
    /\ transmitted = {}
    /\ saves = 0
    /\ saved = NoneSeq
    /\ ClientIdle

\* number of responses the sender task has taken from the channel: those
\* enqueued (one per datagram handled, but for the tasks that have not
\* enqueued or have ended without a response) less those still in it
taken_from_channel ==
    handled - Cardinality({i \in DOMAIN tasks : tasks[i].pc \in {"decided", "saved", "panicked"}})
            - Len(queue)

\* the sender task, sending at most MaxSends responses
SlowSenderSend ==
    /\ taken_from_channel < MaxSends
    /\ SenderSend

NextBacklog ==
    \/ LoopCheck \/ Receive \/ ReceiveError \/ Sleep
    \/ TaskLock \/ TaskRun \/ TaskEnqueue \/ SlowSenderSend \/ Return

SpecBacklog == InitBacklog /\ [][NextBacklog]_vars

(***************************************************************************)
(* SpecClient: client/client.rs, run_client. The worker binds a socket and *)
(* loops: send Start, wait for a datagram with a timeout, react to it. The *)
(* master and the network are the environment: while the master is up it   *)
(* answers requests, at most MaxAnswers times; what a datagram holds is    *)
(* chosen when the worker receives it.                                     *)
(***************************************************************************)
\* number of responses the master sends to the worker in one run
MaxAnswers == 3

\* the payloads the worker receives: json is TRUE when it is the JSON of a response
ResponseDatagram(json, resp) == [json |-> json, response |-> resp]

ResponseDatagrams ==
    {ResponseDatagram(FALSE, NoResponse),
     ResponseDatagram(TRUE, Response("range", "processing", Some(10), Some(30), Some(<<2, 3, 5>>))),
     ResponseDatagram(TRUE, Response("range", "processing", Some(30), Some(10), Some(<<2, 3, 5>>))),
     ResponseDatagram(TRUE, Response("range", "processing", NoneInt, Some(30), Some(<<2, 3, 5>>))),
     ResponseDatagram(TRUE, Response("continue", "processing", NoneInt, NoneInt, NoneSeq)),
     ResponseDatagram(TRUE, Response("done", "completed", NoneInt, NoneInt, NoneSeq)),
     ResponseDatagram(TRUE, Response("error", "invalid_task", NoneInt, NoneInt, NoneSeq)),
     ResponseDatagram(TRUE, Response("fetch", "processing", NoneInt, NoneInt, NoneSeq))}

\* utils/json.rs: Response::from_json, None for a payload that is not a response
Response_from_json(d) ==
    IF d.json THEN [some |-> TRUE, val |-> d.response]
    ELSE [some |-> FALSE, val |-> NoResponse]

\* an entry of client_log
Event(ev, msg) == [ev |-> ev, msg |-> msg]

StartMsg == Request("start", NoneInt, NoneSeq)

\* the timeout arm as it would be if it returned an error
timeout_arm_failing == [pc |-> "done", result |-> "Err"]

\* client.rs lines 134-139 and 142: on a timeout the loop is left and
\* run_client returns Ok(())
timeout_arm == [pc |-> "done", result |-> "Ok"]

\* client.rs lines 105-120: handler, then the match on the task of the request
\* it returns. Returns [pc, result, sends]: where the worker goes on, what
\* run_client returned if it ended, and the requests sent on the way.
react(resp) ==
    LET q == client_handler(resp)
    IN  IF q.fault THEN [pc |-> "done", result |-> "panic", sends |-> <<>>]
        ELSE CASE q.request.task = "save" ->
                    [pc |-> "send_start", result |-> "none", sends |-> <<q.request>>]
               [] q.request.task = "continue" ->
                    [pc |-> "send_start", result |-> "none", sends |-> <<>>]
               [] OTHER ->
                    [pc |-> "done", result |-> "Ok", sends |-> <<>>]

\* start_client has called run_client
InitClient ==
    /\ overflow_checks \in BOOLEAN
    /\ SieveIdle
    /\ MasterIdle
    /\ ServerIdle
    /\ client_pc = "bind"
    /\ client_result = "none"
    /\ client_log = <<>>
    /\ inflight = 0
    /\ answers = 0
    /\ master_up = TRUE
    /\ to_master = <<>>
    /\ to_worker = <<>>

\* client.rs lines 70-71: the socket is bound
ClientBindOk ==
    /\ client_pc = "bind"
    /\ client_pc' = "send_start"
    /\ UNCHANGED <<net_vars, overflow_checks, sieve_vars, master_vars, server_vars,
                   client_result, client_log, inflight, answers, master_up>>

\* client.rs lines 72-77: bind fails, run_client returns Err
ClientBindFails ==
    /\ client_pc = "bind"
    /\ client_pc' = "done"
    /\ client_result' = "Err"
    /\ UNCHANGED <<net_vars, overflow_checks, sieve_vars, master_vars, server_vars,
                   client_log, inflight, answers, master_up>>

\* client.rs lines 81-87: the top of the loop sends Start; when send_to fails
\* run_client returns Err
ClientSendStart ==
    /\ client_pc = "send_start"
    /\ client_log' = Append(client_log, Event("send", StartMsg))
    /\ \E ok \in BOOLEAN :
          /\ client_pc' = IF ok THEN "recv" ELSE "done"
          /\ client_result' = IF ok THEN client_result ELSE "Err"
    /\ UNCHANGED <<net_vars, overflow_checks, sieve_vars, master_vars, server_vars,
                   inflight, answers, master_up>>

\* client.rs lines 91-126: a datagram arrives in time; a payload that does not
\* decode is logged and the loop goes on, a response is handed to the handler
ClientRecv ==
    /\ client_pc = "recv"
    /\ inflight > 0
    /\ inflight' = inflight - 1
    /\ \E d \in ResponseDatagrams :
          LET decoded == Response_from_json(d)
              r == react(decoded.val)
          IN  IF ~decoded.some
              THEN /\ client_log' = Append(client_log, Event("garbage", NoResponse))
                   /\ client_pc' = "send_start"
                   /\ UNCHANGED client_result
              ELSE /\ client_log' = IF r.sends = <<>>
                                    THEN Append(client_log, Event("recv", decoded.val))
                                    ELSE client_log \o <<Event("recv", decoded.val),
                                                         Event("send", r.sends[1])>>
                   /\ \E ok \in BOOLEAN :
                         /\ ok \/ r.sends # <<>>
                         /\ client_pc' = IF ok THEN r.pc ELSE "done"
                         /\ client_result' = IF ok THEN r.result ELSE "Err"
    /\ UNCHANGED <<net_vars, overflow_checks, sieve_vars, master_vars, server_vars,
                   answers, master_up>>

\* client.rs lines 128-133: recv_from fails, run_client returns Err
ClientRecvError ==
    /\ client_pc = "recv"
    /\ client_log' = Append(client_log, Event("error", NoResponse))
    /\ client_pc' = "done"
    /\ client_result' = "Err"
    /\ UNCHANGED <<net_vars, overflow_checks, sieve_vars, master_vars, server_vars,
                   inflight, answers, master_up>>

\* client.rs lines 134-139: no datagram within the timeout
ClientTimeout ==
    /\ client_pc = "recv"
    /\ client_log' = Append(client_log, Event("timeout", NoResponse))
    /\ client_pc' = timeout_arm.pc
    /\ client_result' = timeout_arm.result
    /\ UNCHANGED <<net_vars, overflow_checks, sieve_vars, master_vars, server_vars,
                   inflight, answers, master_up>>

\* number of requests the worker has sent
requests_sent == Cardinality({i \in DOMAIN client_log : client_log[i].ev = "send"})

\* the master answers a request of the worker
MasterAnswers ==
    /\ master_up
    /\ answers < MaxAnswers
    /\ answers < requests_sent
    /\ answers' = answers + 1
    /\ inflight' = inflight + 1
    /\ UNCHANGED <<net_vars, overflow_checks, sieve_vars, master_vars, server_vars,
                   client_pc, client_result, client_log, master_up>>

\* the master has completed and exited: it answers no more
MasterStops ==
    /\ master_up
    /\ master_up' = FALSE
    /\ UNCHANGED <<net_vars, overflow_checks, sieve_vars, master_vars, server_vars,
                   client_pc, client_result, client_log, inflight, answers>>

\* the steps of the worker
ClientStep ==
    \/ ClientBindOk \/ ClientBindFails \/ ClientSendStart
    \/ ClientRecv \/ ClientRecvError \/ ClientTimeout

NextClient == ClientStep \/ MasterAnswers \/ MasterStops

SpecClient == InitClient /\ [][NextClient]_vars

\* run_client is the future block_on drives: it is polled whenever one of its
\* awaits can complete, and the wait for a datagram always can, by the timer
SpecClientFair == SpecClient /\ WF_vars(ClientStep)

(***************************************************************************)
(* SpecProgress: the master and one worker that follows the worker loop,   *)
(* with a network that delivers every datagram, in the order sent, and a   *)
(* worker whose wait times out only when nothing is on its way to it. The  *)
(* master handles the datagrams one at a time (the tasks are serialized by *)
(* the mutex): Serve is the reception of a datagram, the body of its task, *)
(* the enqueueing of the response and its transmission by the sender task. *)
(* The initial states are the master as start_server creates it, and the   *)
(* master late in a run: after TopRounds segments were reported, each      *)
(* once, as a pool of one worker leaves it. The worker sends Start after   *)
(* every response, so the responses on their way to it grow in number with *)
(* every segment: a run is followed until the master has handled MaxServed *)
(* datagrams. The history client_log is not kept here.                     *)
(***************************************************************************)
\* number of datagrams the master handles in one run of SpecProgress
MaxServed == 6

\* the `end` argument of start_server in SpecProgress
ProgressEnds == (0..MaxEnd) \cup {100, 1500}

\* the largest `end`
TopEnds == {U32 - 1}

\* number of segments of Step values from DefaultStart that end within u32
TopRounds == (U32 - 1 - DefaultStart) \div Step

InitProgress ==
    /\ overflow_checks \in BOOLEAN
    /\ SieveIdle
    /\ start = DefaultStart
    /\ \/ \E e \in ProgressEnds : server_state = ServerState_new(start, e)
       \/ \E e \in TopEnds : server_state = pool_state(1, TopRounds, e)
    /\ prev = server_state
    /\ request = NoRequest
    /\ response = NoResponse
    /\ sent = {}
    /\ honest = TRUE
    /\ handled = 0
    /\ srv_pc = "select"
    /\ run_result = "none"
    /\ start_result = "none"
    /\ tasks = <<>>
    /\ lock = 0
    /\ queue = <<>>
    /\ transmitted = {}
    /\ saves = 0
    /\ saved = NoneSeq
    /\ client_pc = "bind"
    /\ client_result = "none"
    /\ client_log = <<>>
    /\ inflight = 0
    /\ answers = 0
    /\ master_up = TRUE
    /\ to_master = <<>>
    /\ to_worker = <<>>

\* server.rs lines 122-176 and 94-103: the master receives the oldest
\* datagram; its task handles it under the mutex and the response, if the
\* task decided one, is enqueued and sent to the worker
Serve ==
    /\ srv_pc = "select"
    /\ handled < MaxServed
    /\ to_master # <<>>
    /\ LET b == task_body(server_state, Head(to_master))
       IN  /\ server_state' = b.state
           /\ request' = b.request
           /\ response' = b.response
           /\ sent' = IF b.response.task = "range" THEN sent \cup {b.response} ELSE sent
           /\ saves' = IF b.pc = "saved" THEN saves + 1 ELSE saves
           /\ saved' = IF b.pc = "saved" THEN Some(server_state.primes) ELSE saved
           /\ to_worker' = IF b.pc = "decided"
                           THEN Append(to_worker, ResponseDatagram(TRUE, b.response))
                           ELSE to_worker
    /\ prev' = server_state
    /\ handled' = handled + 1
    /\ to_master' = Tail(to_master)
    /\ UNCHANGED <<client_vars, overflow_checks, sieve_vars, start, honest, srv_pc,
                   run_result, start_result, tasks, lock, queue, transmitted>>

\* server.rs lines 109-117, 197 and 47-55: the loop sees the status
\* completed, run_server and start_server return
Stop ==
    /\ srv_pc = "select"
    /\ observes_completed(server_state)
    /\ srv_pc' = "returned"
    /\ run_result' = "Ok"
    /\ start_result' = "Ok"
    /\ master_up' = FALSE
    /\ UNCHANGED <<net_vars, overflow_checks, sieve_vars, master_vars, tasks, lock, queue,
                   transmitted, saves, saved, client_pc, client_result, client_log,
                   inflight, answers>>

\* client.rs lines 81-87: the top of the loop sends Start
WorkerSendStart ==
    /\ client_pc = "send_start"
    /\ to_master' = Append(to_master, Datagram(TRUE, StartMsg))
    /\ client_pc' = "recv"
    /\ UNCHANGED <<overflow_checks, sieve_vars, master_vars, server_vars,
                   client_result, client_log, inflight, answers, master_up, to_worker>>

\* client.rs lines 91-126: the oldest datagram on its way arrives; the worker
\* reacts to it and sends the Save the handler returned, if it returned one
WorkerRecv ==
    /\ client_pc = "recv"
    /\ to_worker # <<>>
    /\ to_worker' = Tail(to_worker)
    /\ \E decoded \in {Response_from_json(Head(to_worker))} :
       \E r \in {react(decoded.val)} :
           IF ~decoded.some
           THEN /\ client_pc' = "send_start"
                /\ UNCHANGED <<client_result, to_master>>
           ELSE /\ client_pc' = r.pc
                /\ client_result' = r.result
                /\ to_master' = IF r.sends = <<>> THEN to_master
                                ELSE Append(to_master, Datagram(TRUE, r.sends[1]))
    /\ UNCHANGED <<overflow_checks, sieve_vars, master_vars, server_vars,
                   client_log, inflight, answers, master_up>>

\* client.rs lines 134-139: no datagram within the timeout. Nothing is on
\* its way to the worker and the master has nothing left to answer
WorkerTimeout ==
    /\ client_pc = "recv"
    /\ to_worker = <<>>
    /\ to_master = <<>> \/ srv_pc # "select"
    /\ client_pc' = timeout_arm.pc
    /\ client_result' = timeout_arm.result
    /\ UNCHANGED <<net_vars, client_log, overflow_checks, sieve_vars, master_vars, server_vars,
                   inflight, answers, master_up>>

\* the steps of the worker
WorkerStep == ClientBindOk \/ WorkerSendStart \/ WorkerRecv \/ WorkerTimeout

NextProgress == WorkerStep \/ Serve \/ Stop

SpecProgress == InitProgress /\ [][NextProgress]_vars

\* fair scheduling: the runtimes poll run_client, run_server and the tasks
\* whenever they can go on, and every datagram sent is delivered
SpecProgressFair ==
    /\ SpecProgress
    /\ WF_vars(WorkerStep) /\ WF_vars(Serve) /\ WF_vars(Stop)

(***************************************************************************)
(* Properties.                                                             *)
(***************************************************************************)
\* a request has been handled: request, response and prev describe it
Handled == handled > 0

HandledWhileProcessing == Handled /\ ~is_completed(prev)

\* C1: for 0 <= lo <= hi and divisors = all primes <= sqrt(hi), ascending,
\* sieve_segment(lo, hi, divisors) returns exactly the primes of [lo, hi],
\* ascending, each once.
C1_SieveReturnsExactlyThePrimes ==
    (/\ sieve_pc = "returned"
     /\ sieve_in.start <= sieve_in.end
     /\ sieve_in.primes = ExactDivisors(sieve_in.end))
    => (/\ ~sieve_out.fault
        /\ sieve_out.primes = PrimesIn(sieve_in.start, sieve_in.end))

\* C2: once the status is Completed, a further request of any task is
\* answered Done and leaves the whole ServerState (cursor, status, primes)
\* as it was.
C2_CompletedIsTerminal ==
    (Handled /\ is_completed(prev))
    => (response.task = "done" /\ server_state = prev)

\* a Save carrying primes was handled after completion
C2_Witness ==
    /\ Handled
    /\ is_completed(prev)
    /\ request.task = "save"
    /\ request.primes.some
    /\ request.end.some
    /\ request.end.val > prev.last_checked

\* C3: every Done response carries the full known primes as its payload.
C3_DoneCarriesKnownPrimes ==
    (Handled /\ response.task = "done")
    => (response.primes.some /\ response.primes.val = server_state.primes)

\* C4: no handled request, whatever its task, end or primes, decreases the
\* cursor.
C4_CursorNeverDecreases ==
    Handled => server_state.last_checked >= prev.last_checked

\* a Save reporting an end below the cursor was handled while Processing
C4_Witness ==
    /\ HandledWhileProcessing
    /\ request.task = "save"
    /\ request.end.some
    /\ request.end.val < prev.last_checked

\* C5: with start < end configured, a Start handled while Processing (cursor
\* below end) is answered with Range{start: cursor, end: min(cursor + step,
\* end)}, and no Range sent ends above the configured end.
C5_RangeIsClampedToEnd ==
    start < server_state.end
    => /\ (/\ HandledWhileProcessing
           /\ request.task = "start"
           /\ prev.last_checked < prev.end)
          => (/\ response.task = "range"
              /\ response.start = Some(prev.last_checked)
              /\ response.end = Some(Min(prev.last_checked + prev.step, prev.end)))
       /\ \A r \in sent : r.end.val <= server_state.end

\* C6: with start < end configured and every Save reporting the end of a
\* segment the master assigned, start <= cursor <= end.
C6_CursorWithinBounds ==
    (honest /\ start < server_state.end)
    => (/\ start <= server_state.last_checked
        /\ server_state.last_checked <= server_state.end)

\* C7: the status is Completed if and only if cursor >= end, in every
\* reachable state, the initial one included.
C7_CompletedIffCursorAtEnd ==
    is_completed(server_state) <=> server_state.last_checked >= server_state.end

\* C8: a Save of a worker that follows the loop, handled while Processing,
\* appends its primes and moves the cursor to its end when that end is above
\* the cursor, and otherwise leaves cursor and primes unchanged.
C8_StaleSaveChangesNothing ==
    (honest /\ HandledWhileProcessing /\ request.task = "save")
    => IF request.end.some /\ request.end.val > prev.last_checked
       THEN /\ server_state.last_checked = request.end.val
            /\ server_state.primes = prev.primes \o unwrap_or(request.primes, <<>>)
       ELSE /\ server_state.last_checked = prev.last_checked
            /\ server_state.primes = prev.primes

\* C9: a Save handled while Processing completes the job and is answered Done
\* exactly when the cursor after the update is >= end; otherwise the status
\* stays Processing and the answer is Continue without start, end or primes.
\* With end = 100, Save{end: 10} on a cursor below 10 moves the cursor to 10
\* and is answered Continue.
C9_SaveAnswer ==
    (HandledWhileProcessing /\ request.task = "save")
    => /\ IF server_state.last_checked >= server_state.end
          THEN /\ is_completed(server_state)
               /\ response.task = "done"
          ELSE /\ server_state.status = "processing"
               /\ response.task = "continue"
               /\ ~response.start.some
               /\ ~response.end.some
               /\ ~response.primes.some
       /\ (/\ server_state.end = 100
           /\ request.end = Some(10)
           /\ prev.last_checked < 10)
          => (server_state.last_checked = 10 /\ response.task = "continue")

\* the scenario: start = 0, end = 100, Save{end: 10} answered Continue
C9_Witness ==
    /\ HandledWhileProcessing
    /\ request.task = "save"
    /\ request.end = Some(10)
    /\ start = 0
    /\ prev.last_checked = 0
    /\ server_state.end = 100
    /\ server_state.last_checked = 10
    /\ response.task = "continue"

\* C10: handling a Start leaves the ServerState unchanged, and a Start handled
\* right after another Start receives the identical response.
C10_StartChangesNothing ==
    [][request'.task = "start"
       => /\ server_state' = server_state
          /\ (Handled /\ request.task = "start") => response' = response]_vars

\* two Starts and nothing else were handled; one and the same Range answered both
C10_Witness ==
    /\ handled = 2
    /\ honest
    /\ request.task = "start"
    /\ response.task = "range"
    /\ server_state.primes = SeedPrimes
    /\ server_state = prev
    /\ sent = {response}

(***************************************************************************)
(* Runs driven by workers that follow the worker loop: states of Spec in   *)
(* which `honest` holds and the master was created by start_server.        *)
(***************************************************************************)
Elems(s) == {s[i] : i \in DOMAIN s}

\* the primes up to the largest cursor such a run reaches within MaxRequests
PrimeTable == {n \in 0..(DefaultStart + Step * MaxRequests) : IsPrime(n)}

WorkerRun == honest /\ start = DefaultStart

\* C11: in a run driven by workers that follow the worker loop, the known
\* primes are in strictly increasing order (no value twice).
C11_KnownPrimesAscending ==
    WorkerRun => StrictlyAscending(server_state.primes)

\* C12: in a run driven by workers that follow the worker loop, whatever
\* Ranges are lost, duplicated or reported late, every prime p with
\* start <= p <= cursor is among the known primes.
C12_NoPrimeBelowCursorIsMissing ==
    WorkerRun =>
        \A p \in start..server_state.last_checked :
            p \in PrimeTable => p \in Elems(server_state.primes)

\* a worker's Save of a Range issued before the cursor moved was handled
\* after a Save of the same Range
C12_Witness ==
    /\ WorkerRun
    /\ HandledWhileProcessing
    /\ request.task = "save"
    /\ request.end.val = prev.last_checked
    /\ prev.last_checked > start
    /\ server_state.last_checked = DefaultStart + Step

\* the states SpecPool starts from are those the handler produces: after
\* the first Range was reported d times, the known primes are
\* pool_primes(d, 1)
PoolStateShape ==
    (WorkerRun /\ server_state.last_checked = DefaultStart + Step)
    => \E d \in 1..handled : server_state.primes = pool_primes(d, 1)

\* the divisor list of a Range holds every prime p with p * p <= the Range's end
has_divisors(r) ==
    \A p \in 2..Sqrt(r.end.val) :
        IsPrime(p) => \E i \in DOMAIN r.primes.val : r.primes.val[i] = p

\* the worker's sieve over the Range returns exactly the primes of the segment
sieves_exactly(r) ==
    LET q == client_handler(r)
    IN  /\ ~q.fault
        /\ q.request.primes.val = PrimesIn(r.start.val, r.end.val)

\* C13: in a run driven by workers that follow the worker loop, whatever
\* Saves were merged before, the divisor list of every Range sent holds every
\* prime <= sqrt(segment end), and the worker's sieve over the segment with
\* that list returns exactly the primes of the segment.
C13_RangeDivisorsSuffice ==
    (WorkerRun /\ Handled /\ response.task = "range")
    => (has_divisors(response) /\ sieves_exactly(response))

(***************************************************************************)
(* Properties of the server loop (SpecServer).                             *)
(***************************************************************************)
\* C14: in every run of the server save_primes_to_file is called exactly
\* once, after the status became completed and with the final primes: never
\* more than once, and not zero times when the server has stopped.
C14_PrimesSavedExactlyOnce ==
    /\ saves <= 1
    /\ saves = 1 => (is_completed(server_state) /\ saved = Some(server_state.primes))
    /\ (srv_pc = "returned" /\ run_result = "Ok") => saves = 1

\* a task has run to its end
finished(t) == t.pc \in {"enqueued", "saved", "panicked"}

\* C15: every datagram the loop received and dispatched gets exactly one
\* response enqueued for its address: a task that has run to its end has
\* enqueued its response, also when it ran after the status became completed.
C15_EveryTaskEnqueuesAResponse ==
    \A i \in DOMAIN tasks : finished(tasks[i]) => tasks[i].pc = "enqueued"

\* a task has run in SpecServer: prev, request and response describe the last
TaskRan == srv_pc # "idle" /\ Handled

empty_payload(r) == ~r.start.some /\ ~r.end.some /\ ~r.primes.some

C20_BindFailureIsReported ==
    run_result = "Err" => start_result = "Err"

(***************************************************************************)
(* Properties of the worker loop (SpecClient, SpecClientFair).             *)
(***************************************************************************)
\* the log entry e records that a request with this task was sent
is_send(e, task) == e.ev = "send" /\ e.msg.task = task

\* the log entry e records that a response with this task was received
is_recv(e, task) == e.ev = "recv" /\ e.msg.task = task

\* C17: after the worker has sent the Save for a Range, its next step is to
\* wait for a response: no request is sent between that Save and the next
\* datagram received, so two requests are never outstanding at once.
C17_NoStartAfterSave ==
    \A i \in 1..(Len(client_log) - 1) :
        is_send(client_log[i], "save") => client_log[i + 1].ev # "send"

TimedOut == client_log # <<>> /\ client_log[Len(client_log)].ev = "timeout"

\* C18: a worker whose wait for a response times out leaves the loop and
\* run_client returns Ok(()), not an error; so once the master has stopped
\* answering, the worker eventually terminates.
C18_TimeoutEndsTheWorkerWithSuccess ==
    /\ [](TimedOut => (client_pc = "done" /\ client_result = "Ok"))
    /\ (~master_up /\ client_pc # "idle") ~> (client_pc = "done")

\* the master stopped while the worker was waiting for the answer to a Save
\* and a Start; the worker timed out
C18_Witness ==
    /\ TimedOut
    /\ ~master_up
    /\ answers = 1
    /\ \E i \in DOMAIN client_log : is_send(client_log[i], "save")
    /\ client_result = "Ok"

\* a Range as the master sends it: the fields present and start <= end
well_formed_range(r) ==
    /\ r.task = "range"
    /\ r.start.some /\ r.end.some /\ r.primes.some
    /\ r.start.val <= r.end.val

C21_EmptySegmentIsEmpty ==
    (sieve_pc = "returned" /\ sieve_in.end < sieve_in.start)
    => (/\ ~sieve_out.fault
        /\ sieve_out.primes = <<>>
        /\ sieve_out.size = 0)

\* C22: a freshly created ServerState for [start, end] has cursor = start, the
\* given end, status processing, a non-empty seed of primes and a step derived
\* from the width of the range (5 for start = 0, end = 100); step and end are
\* the same after every request.
C22_FreshStateShape ==
    /\ handled = 0
       => (/\ server_state.last_checked = start
           /\ server_state.status = "processing"
           /\ server_state.primes # <<>>
           /\ (start = 0 /\ server_state.end = 100) => server_state.step = 5)
    /\ server_state.step = prev.step
    /\ server_state.end = prev.end

(***************************************************************************)
(* The mutex on the ServerState (SpecServer).                              *)
(***************************************************************************)
\* the tasks inside the block of lines 142-169
in_critical_section == {i \in DOMAIN tasks : tasks[i].pc = "locked"}

\* the task has left the block of lines 142-169: its datagram was handled
ran(t) == t.pc \in {"decided", "enqueued", "saved", "panicked"}
          \/ (t.pc = "cancelled" /\ t.response # NoResponse)

\* the orders in which the tasks of S can be handled one at a time
Orders(S) == {o \in [1..Cardinality(S) -> S] : \A i, j \in DOMAIN o : i # j => o[i] # o[j]}

\* the tasks order[k..] handled one at a time from `state`: the ServerState
\* they leave, and whether each gets the response its task decided
RECURSIVE one_at_a_time(_, _, _)
one_at_a_time(state, order, k) ==
    IF k > Len(order) THEN [state |-> state, same |-> TRUE]
    ELSE LET b == task_body(state, tasks[order[k]].datagram)
             rest == one_at_a_time(b.state, order, k + 1)
         IN  [state |-> rest.state,
              same |-> rest.same /\ b.response = tasks[order[k]].response]

\* C23: at no time are two per-datagram tasks both inside the
\* read-modify-write of the ServerState (the holder of the mutex is the only
\* one), and the ServerState and the responses are those of handling the
\* datagrams one at a time in some order.
C23_TransitionsAreSerialized ==
    /\ Cardinality(in_critical_section) <= 1
    /\ \A i \in DOMAIN tasks : tasks[i].pc = "locked" <=> lock = i
    /\ \E order \in Orders({i \in DOMAIN tasks : ran(tasks[i])}) :
          one_at_a_time(ServerState_new(start, server_state.end), order, 1)
             = [state |-> server_state, same |-> TRUE]

\* the task of the second datagram, a Save, changed the state while the task
\* of the first, a Start, was waiting for the mutex; the first then took it
C23_Witness ==
    /\ Len(tasks) = 2
    /\ tasks[2].datagram.request.task = "save"
    /\ ran(tasks[2])
    /\ server_state # ServerState_new(start, server_state.end)
    /\ tasks[1].datagram.request.task = "start"
    /\ tasks[1].pc = "locked"

\* C26: a task holds the mutex only while it computes the transition: a task
\* that has decided its response and waits to enqueue it, or has enqueued it,
\* does not hold the mutex, and neither does a task that has ended.
C26_LockReleasedBeforeEnqueue ==
    \A i \in DOMAIN tasks :
        (ran(tasks[i]) \/ tasks[i].pc \in {"spawned", "cancelled"}) => lock # i

\* a task waits to enqueue its response while another task holds the mutex
C26_Witness ==
    \E i, j \in DOMAIN tasks :
        /\ tasks[i].pc = "decided"
        /\ tasks[j].pc = "locked"
        /\ lock = j

(***************************************************************************)
(* The end of the server loop (SpecServerFair).                            *)
(***************************************************************************)
loop_running == srv_pc \in {"check", "select"}

loop_left == srv_pc \in {"exited", "returned"}

\* C24: once the status is completed the receive loop eventually exits, also
\* when no further datagram arrives, and after the iteration at which it saw
\* completed it dispatches no task.
C24_LoopExitsOnceCompleted ==
    /\ (loop_running /\ is_completed(server_state)) ~> loop_left
    /\ [][loop_left => tasks' = tasks \/ Len(tasks') = Len(tasks)]_vars

\* the loop left after the only datagram of the run, a Save that completed
\* the job
C24_Witness ==
    /\ srv_pc = "exited"
    /\ Len(tasks) = 1
    /\ tasks[1].datagram.request.task = "save"
    /\ is_completed(server_state)

\* the task has decided a response to send
has_response(t) == t.response # NoResponse /\ t.response # Panicked

\* C25: in-flight work drains before the server exits: when start_server has
\* returned, every response a task decided, the Done answering the Save that
\* completed the job included, was enqueued and transmitted to its worker.
C25_InFlightWorkDrains ==
    (srv_pc = "returned" /\ run_result = "Ok")
    => \A i \in DOMAIN tasks : has_response(tasks[i]) => i \in transmitted

(***************************************************************************)
(* The full response channel (SpecBacklog).                                *)
(***************************************************************************)
queue_full == Len(queue) = QueueCapacity

\* the tasks that wait for room in the channel
blocked_on_queue == {i \in DOMAIN tasks : tasks[i].pc = "decided" /\ queue_full}

\* C27: when the response channel is full only the tasks trying to enqueue
\* are blocked: the loop is not. At the top of an iteration it waits for the
\* mutex only, which no task waiting for the channel holds; in the select it
\* can receive and dispatch a datagram or end the sleep; and a task that has
\* not decided its response can take the mutex when it is free.
C27_FullQueueBlocksOnlyEnqueuers ==
    queue_full =>
        /\ lock \notin blocked_on_queue
        /\ (srv_pc = "check" /\ lock = 0) => ENABLED LoopCheck
        /\ (srv_pc = "check" /\ lock # 0) => ENABLED TaskRun
        /\ srv_pc = "select" => ENABLED Sleep
        /\ (srv_pc = "select" /\ Len(tasks) < MaxDatagrams) => ENABLED Receive
        /\ (lock = 0 /\ srv_pc \in {"check", "select"}
                     /\ \E i \in DOMAIN tasks : tasks[i].pc = "spawned")
           => ENABLED TaskLock

\* the channel is full, a task waits for room in it, and the loop has
\* received and dispatched another datagram since
C27_Witness ==
    /\ queue_full
    /\ Len(tasks) = 2
    /\ tasks[1].pc = "decided"
    /\ tasks[2].pc = "spawned"
    /\ srv_pc = "check"

(***************************************************************************)
(* Malformed responses (SpecClient).                                       *)
(***************************************************************************)
\* the log entry e records a datagram that is not a well-formed response:
\* undecodable, or a Range without start, end or primes
malformed(e) ==
    \/ e.ev = "garbage"
    \/ /\ is_recv(e, "range")
       /\ ~(e.msg.start.some /\ e.msg.end.some /\ e.msg.primes.some)

\* C28: a malformed response never crashes the worker: after an undecodable
\* datagram, or a Range without start, end or primes, the worker loops again
\* (its next step is the Start at the top of the loop) instead of aborting.
C28_MalformedResponseIsRetried ==
    \A k \in DOMAIN client_log :
        malformed(client_log[k]) =>
            IF k = Len(client_log)
            THEN client_pc = "send_start" /\ client_result = "none"
            ELSE is_send(client_log[k + 1], "start")

(***************************************************************************)
(* The content of the known primes (Spec).                                 *)
(***************************************************************************)
\* the configured end is not below the largest prime of the seed
seed_within_end == server_state.end >= SeedPrimes[Len(SeedPrimes)]

\* C29: in a run with workers that follow the worker loop, every value stored
\* in the known primes is a prime p with 2 <= p <= end: the list holds no
\* number above the configured end and no non-prime. Stated for the runs
\* whose end the seed does not exceed.
C29_KnownPrimesAreWithinEnd ==
    (WorkerRun /\ seed_within_end) =>
        \A i \in DOMAIN server_state.primes :
            /\ IsPrime(server_state.primes[i])
            /\ server_state.primes[i] <= server_state.end

(***************************************************************************)
(* Progress (SpecProgressFair).                                            *)
(***************************************************************************)
\* the run is as long as the runs SpecProgress follows
served_out == handled = MaxServed

\* C30: with a worker that follows the worker loop, datagrams delivered
\* without loss and fair scheduling, the cursor eventually reaches end and
\* the status becomes completed, for every configured end (in every run
\* that ends before the master has handled MaxServed datagrams).
C30_JobEventuallyCompletes ==
    <>(\/ is_completed(server_state) /\ server_state.last_checked >= server_state.end
       \/ served_out)

====
